---- MODULE Spec2Model ----
(***************************************************************************)
(* Blackjack self-play learning: the Blackjack game (rlearn/blackjack.py), *)
(* the MCTS engine (rlearn/mcts.py), the self-play episode generator and   *)
(* the learning loop with its arena gate (BlackJackAgent).                 *)
(*                                                                         *)
(* Numbers.  The program computes with floats; the model computes with     *)
(* exact numbers.  Rewards, oracle values and Q values are counted in      *)
(* units of 1e-4 (the tie reward), so 1.0 is Scale units.  Q values and    *)
(* probabilities are exact fractions <<numerator, denominator>>.           *)
(***************************************************************************)
EXTENDS Integers, Sequences, FiniteSets, TLC

VARIABLES
    \* ---- configuration (args), fixed after construction
    numMCTSSims,     \* args.numMCTSSims
    tempThreshold,   \* args.tempThreshold
    \* ---- BlackJackAgent.execute_episode
    pc,              \* control point of the running call
    state,           \* the episode's game state (hand0, hand1, current_player, reward)
    current_player,  \* execute_episode's local current_player
    step,            \* execute_episode's local step
    temp,            \* temperature of the running get_action_prob call
    trainExamples,   \* execute_episode's local trainExamples
    result,          \* the list execute_episode returned
    pi,              \* the vector get_action_prob returned
    \* ---- MCTS
    Qsa, Nsa, Ns, Ps, \* the statistics dictionaries
    sim,             \* loop index i of get_action_prob
    cur,             \* argument of the innermost running search call
    stack,           \* frames of the search calls waiting for their recursive call
    retv,            \* value returned by the search call that last returned
    bestAs,          \* get_action_prob's bestAs (temp = 0)
    err,             \* the exception that ended the run, "" when none
    \* ---- observation of the calls made (history, not program state)
    Wsa,             \* per edge: the sum of the values backed up through it
    Ksa,             \* per edge: the number of backups through it
    lastCall,        \* the last get_next_state call: [st, player, action, ret]
    temps,           \* the temperatures of the episode's decisions, in order
    \* ---- BlackJackAgent.learn
    iter,            \* loop variable i
    lpc,             \* control point inside the iteration
    nnet, pnet, dealer_nnet, dealer_pnet,   \* parameters held by the four networks
    ckpt,            \* checkpoint folder: file name -> saved parameters
    arena,           \* (nwins, pwins, draws) of the iteration's arena
    gate,            \* outcome of the iteration's gate: "", "accept" or "reject"
    fits,            \* number of fit calls made so far (names the fitted parameters)
    trainExamplesHistory,    \* self.trainExamplesHistory: one buffer per iteration
    iterationTrainExamples,  \* the deque of the iteration's examples
    eps              \* number of self-play episodes of the iteration done (loop variable j)

\* ------------------------------------------------------------------------
\* Bounds of the model
\* ------------------------------------------------------------------------
MaxSims == 4            \* numMCTSSims of a single get_action_prob call: 0..MaxSims
MaxEpisodeSims == 2     \* numMCTSSims of a whole episode: 0..MaxEpisodeSims
MaxTempThreshold == 2   \* tempThreshold: 1..MaxTempThreshold
MaxIters == 2           \* numIters: 1..MaxIters
GamesEval == 10         \* games_eval, the number of arena games
MaxEpisodeLen == 2      \* examples returned by an episode of the learning loop: 1..MaxEpisodeLen

\* ------------------------------------------------------------------------
\* Constants of the program
\* ------------------------------------------------------------------------
ACTION_HIT == 0
ACTION_STAND == 1
PLAYER == 1
DEALER == 0 - 1
Scale == 10000
TIE == 1
WIN == Scale
LOSS == 0 - Scale
ActionSize == 2

suite == <<"A", "2", "3", "4", "5", "6", "7", "8", "9", "10", "J", "Q", "K">>
n13 == Len(suite)
card_values == <<1, 2, 3, 4, 5, 6, 7, 8, 9, 10, 10, 10, 10>>

\* index_map[card]: the 0-based position of card in suite
index_map(card) == (CHOOSE i \in 1..n13 : suite[i] = card) - 1

\* ------------------------------------------------------------------------
\* Helpers: sums, minima, maxima of sequences
\* ------------------------------------------------------------------------
RECURSIVE SumSeq(_)
SumSeq(sq) == IF sq = <<>> THEN 0 ELSE Head(sq) + SumSeq(Tail(sq))

SeqRange(sq) == {sq[i] : i \in 1..Len(sq)}
MaxOf(sq) == CHOOSE x \in SeqRange(sq) : \A y \in SeqRange(sq) : y <= x
MinOf(sq) == CHOOSE x \in SeqRange(sq) : \A y \in SeqRange(sq) : x <= y

\* number of occurrences of card in hand
CountOf(hand, card) == Cardinality({i \in 1..Len(hand) : hand[i] = card})

\* ------------------------------------------------------------------------
\* BlackJack
\* ------------------------------------------------------------------------
\* _get_value(state): the possible totals of a hand given as a count vector
\* of n13+1 entries (the last entry is not a count and is excluded)
get_value(vec) ==
    LET base_value == SumSeq([i \in 1..n13 |-> vec[i] * card_values[i]])
        num_aces == vec[1]
    IN  IF num_aces = 0 \/ base_value > 21
        THEN <<base_value>>
        ELSE SelectSeq([i \in 1..(num_aces + 1) |-> base_value + 10 * (i - 1)],
                       LAMBDA x : x <= 21)

\* to_neural_state(state)
to_neural_state(st) ==
    LET cp == st[3]
        player == IF cp = -1 THEN 2 ELSE 1     \* index of the player's hand
        dealer == IF cp = -1 THEN 1 ELSE 2     \* index of the dealer's hand
        player_state == [i \in 1..(n13 + 1) |->
                            IF i <= n13 THEN CountOf(st[player], suite[i])
                            ELSE card_values[index_map(st[dealer][1]) + 1]]
        dealer_state == [i \in 1..(n13 + 1) |->
                            IF i <= n13 THEN CountOf(st[dealer], suite[i])
                            ELSE MaxOf(get_value(player_state))]
    IN  IF cp = 1 THEN <<player_state, dealer_state, st[3], st[4]>>
                  ELSE <<dealer_state, player_state, st[3], st[4]>>

\* get_valid_actions(state, player): valids[a + 1] is the entry of action a
get_valid_actions_least_total(st, player) ==
    LET ns == to_neural_state(st)
        mover_value == get_value(ns[1])
    IN  IF st[3] = -1
        THEN IF MinOf(mover_value) < 17 THEN <<1, 0>>
             ELSE IF MinOf(mover_value) > 21 THEN <<0, 0>>
             ELSE <<1, 1>>
        ELSE IF MinOf(mover_value) > 21 THEN <<0, 0>> ELSE <<1, 1>>
get_valid_actions(st, player) ==
    LET ns == to_neural_state(st)
        mover_value == get_value(ns[1])
    IN  IF st[3] = -1
        THEN IF MaxOf(mover_value) < 17 THEN <<1, 0>>
             ELSE IF MinOf(mover_value) > 21 THEN <<0, 0>>
             ELSE <<1, 1>>
        ELSE IF MinOf(mover_value) > 21 THEN <<0, 0>> ELSE <<1, 1>>

\* get_game_ended(state, player)
get_game_ended(st, player) == st[4]

\* _deal_next_card(state): the cards random.choices can return, those with
\* a positive weight 4 - (copies in the two hands)
deal_next_card(st) ==
    {suite[i] : i \in {j \in 1..n13 :
                        4 - CountOf(st[1], suite[j]) - CountOf(st[2], suite[j]) > 0}}

\* get_next_state(state, player, action) once the card of a hit is drawn
get_next_state_bust_by_sign(st, player, action, card) ==
    IF action = ACTION_HIT
    THEN LET state0 == Append(st[1], card)
             ns == to_neural_state(<<state0, st[2], st[3], st[4]>>)
         IN  IF MinOf(get_value(ns[1])) > 21
             THEN <<state0, st[2], st[3], 0 - player * Scale>>
             ELSE <<state0, st[2], st[3], 0>>
    ELSE IF player = 1
         THEN <<st[2], st[1], -1, 0>>
         ELSE LET ns == to_neural_state(st)
                  dealer_sum == MaxOf(get_value(ns[1]))
                  player_sum == MaxOf(get_value(ns[2]))
              IN  IF player_sum > dealer_sum THEN <<st[1], st[2], st[3], LOSS>>
                  ELSE IF player_sum = dealer_sum THEN <<st[1], st[2], st[3], TIE>>
                  ELSE <<st[1], st[2], st[3], WIN>>
get_next_state_stand_returns_turn(st, player, action, card) ==
    IF action = ACTION_HIT
    THEN LET state0 == Append(st[1], card)
             ns == to_neural_state(<<state0, st[2], st[3], st[4]>>)
         IN  IF MinOf(get_value(ns[1])) > 21
             THEN <<state0, st[2], st[3], IF player = 1 THEN 0 - player * Scale
                                                        ELSE player * Scale>>
             ELSE <<state0, st[2], st[3], 0>>
    ELSE <<st[2], st[1], 0 - player, 0>>
get_next_state(st, player, action, card) ==
    IF action = ACTION_HIT
    THEN LET state0 == Append(st[1], card)
             ns == to_neural_state(<<state0, st[2], st[3], st[4]>>)
         IN  IF MinOf(get_value(ns[1])) > 21
             THEN <<state0, st[2], st[3], IF player = 1 THEN 0 - player * Scale
                                                        ELSE player * Scale>>
             ELSE <<state0, st[2], st[3], 0>>
    ELSE IF player = 1
         THEN <<st[2], st[1], -1, 0>>
         ELSE LET ns == to_neural_state(st)
                  dealer_sum == MaxOf(get_value(ns[1]))
                  player_sum == MaxOf(get_value(ns[2]))
              IN  IF player_sum > dealer_sum THEN <<st[1], st[2], st[3], LOSS>>
                  ELSE IF player_sum = dealer_sum THEN <<st[1], st[2], st[3], TIE>>
                  ELSE <<st[1], st[2], st[3], WIN>>

\* str(v) for the one-digit counts and the totals
RECURSIVE JoinCounts(_, _)
JoinCounts(vec, i) ==
    IF i > n13 THEN "" ELSE ToString(vec[i]) \o JoinCounts(vec, i + 1)

\* state_to_string(state)
state_to_string(st) ==
    LET ns == to_neural_state(st)
    IN  IF st[3] = 1
        THEN JoinCounts(ns[1], 1) \o ":"
             \o ToString(card_values[index_map(st[2][1]) + 1]) \o ":" \o ToString(st[3])
        ELSE JoinCounts(ns[2], 1) \o ":"
             \o ToString(MaxOf(get_value(ns[1]))) \o ":" \o ToString(st[3])

\* ------------------------------------------------------------------------
\* Exact arithmetic: fractions <<n, d>> with d > 0, in lowest terms
\* ------------------------------------------------------------------------
Abs(x) == IF x < 0 THEN 0 - x ELSE x
Sgn(x) == IF x < 0 THEN -1 ELSE IF x = 0 THEN 0 ELSE 1

RECURSIVE Gcd(_, _)
Gcd(a, b) == IF b = 0 THEN a ELSE Gcd(b, a % b)

Frac(n, d) ==
    LET g == Gcd(Abs(n), Abs(d))
        sg == IF d < 0 THEN -1 ELSE 1
    IN  <<(sg * n) \div g, (sg * d) \div g>>

\* ------------------------------------------------------------------------
\* Long integers for comparing the upper confidence bounds exactly:
\* a magnitude is a sequence of limbs to the base Scale, lowest limb first,
\* without leading zero limbs; a long integer is [s |-> sign, m |-> magnitude]
\* ------------------------------------------------------------------------
RECURSIVE NatNorm(_, _)
NatNorm(limbs, carry) ==
    IF limbs = <<>>
    THEN IF carry = 0 THEN <<>>
         ELSE <<carry % Scale>> \o NatNorm(<<>>, carry \div Scale)
    ELSE LET v == Head(limbs) + carry
         IN  <<v % Scale>> \o NatNorm(Tail(limbs), v \div Scale)

RECURSIVE NatStrip(_)
NatStrip(m) ==
    IF m # <<>> /\ m[Len(m)] = 0 THEN NatStrip(SubSeq(m, 1, Len(m) - 1)) ELSE m

Limb(m, i) == IF i >= 1 /\ i <= Len(m) THEN m[i] ELSE 0
MaxInt(a, b) == IF a >= b THEN a ELSE b

NatOfInt(k) == NatStrip(NatNorm(<<k>>, 0))
NatAdd(x, y) ==
    NatStrip(NatNorm([i \in 1..MaxInt(Len(x), Len(y)) |-> Limb(x, i) + Limb(y, i)], 0))
\* x - y for x >= y
NatSub(x, y) ==
    NatStrip(NatNorm([i \in 1..MaxInt(Len(x), Len(y)) |-> Limb(x, i) - Limb(y, i)], 0))
NatMul(x, y) ==
    NatStrip(NatNorm([k \in 1..(Len(x) + Len(y)) |->
                        SumSeq([i \in 1..Len(x) |-> x[i] * Limb(y, k - i + 1)])], 0))

RECURSIVE NatCmpFrom(_, _, _)
NatCmpFrom(x, y, i) ==
    IF i = 0 THEN 0
    ELSE IF x[i] # y[i] THEN Sgn(x[i] - y[i])
    ELSE NatCmpFrom(x, y, i - 1)
\* -1, 0 or 1 as x < y, x = y or x > y
NatCmp(x, y) ==
    IF Len(x) # Len(y) THEN Sgn(Len(x) - Len(y)) ELSE NatCmpFrom(x, y, Len(x))

Big(k) == [s |-> Sgn(k), m |-> NatOfInt(Abs(k))]
BigNeg(x) == [s |-> 0 - x.s, m |-> x.m]
BigMul(x, y) == [s |-> x.s * y.s, m |-> NatMul(x.m, y.m)]
BigAdd(x, y) ==
    IF x.s = 0 THEN y
    ELSE IF y.s = 0 THEN x
    ELSE IF x.s = y.s THEN [s |-> x.s, m |-> NatAdd(x.m, y.m)]
    ELSE LET c == NatCmp(x.m, y.m)
         IN  IF c = 0 THEN [s |-> 0, m |-> <<>>]
             ELSE IF c > 0 THEN [s |-> x.s, m |-> NatSub(x.m, y.m)]
             ELSE [s |-> y.s, m |-> NatSub(y.m, x.m)]
BigSub(x, y) == BigAdd(x, BigNeg(y))

\* sign of r + s * sqrt(M) for long integers r, s, M with s >= 0 and M >= 0
SignRoot(r, s, M) ==
    IF r.s >= 0
    THEN IF r.s > 0 \/ (s.s > 0 /\ M.s > 0) THEN 1 ELSE 0
    ELSE BigSub(BigMul(BigMul(s, s), M), BigMul(r, r)).s

\* sign of I + a * sqrt(A) - b * sqrt(B) for integers I, a >= 0, b >= 0,
\* A >= 0, B >= 0
SignSum(I, a, A, b, B) ==
    LET a2A == BigMul(BigMul(Big(a), Big(a)), Big(A))
        b2B == BigMul(BigMul(Big(b), Big(b)), Big(B))
        sT == BigSub(a2A, b2B).s                \* sign of a*sqrt(A) - b*sqrt(B)
    IN  IF I = 0 THEN sT
        ELSE IF sT = 0 \/ sT = Sgn(I) THEN Sgn(I)
        ELSE \* opposite signs: the larger absolute value decides,
             \* I^2 - T^2 = (I^2 - a^2 A - b^2 B) + 2ab sqrt(AB)
             Sgn(I) * SignRoot(BigSub(BigSub(BigMul(Big(I), Big(I)), a2A), b2B),
                               Big(2 * a * b), BigMul(Big(A), Big(B)))

\* ------------------------------------------------------------------------
\* MCTS
\* ------------------------------------------------------------------------
alternate_turn == FALSE          \* BlackJack: Game(alternate_turn=False, ...)
player_agnostic_state == FALSE   \* BlackJack: Game(..., player_agnostic_state=False)
cpuct == 1                       \* args.cpuct
EPSInv == Scale * Scale          \* 1 / EPS, EPS = 1e-8

\* The oracle (nnet.predict) is outside the program: it answers an expansion
\* with any policy (entries in units of 1 / PolicyDen) and any
\* value (in units of 1e-4): one of the pairs of OracleSet.
PolicyDen == 4
OracleSet == {<<<<2, 2>>, 5000>>, <<<<0, 4>>, 0 - 5000>>}

\* The cards the model lets random.choices draw: those of positive weight
\* that are among DealRanks.
DealRanks == {"5", "6", "K"}
Draws(st) == deal_next_card(st) \cap DealRanks

Actions == 0..(ActionSize - 1)
NoCard == "-"
Has(dict, key) == key \in DOMAIN dict
Put(dict, key, val) == (key :> val) @@ dict

\* numpy's 0 / 0
NaN == <<0, 0>>

\* np.sum of a vector of fractions
FracAdd(x, y) == Frac(x[1] * y[2] + y[1] * x[2], x[2] * y[2])
RECURSIVE SumFracs(_)
SumFracs(sq) == IF sq = <<>> THEN <<0, 1>> ELSE FracAdd(Head(sq), SumFracs(Tail(sq)))

\* lines 89-100 of search: the prior stored at expansion
MaskedPolicyUnmasked(raw, valids) ==
    LET sum_Ps_s == SumSeq(raw)
    IN  IF sum_Ps_s > 0
        THEN [i \in 1..ActionSize |-> Frac(raw[i], sum_Ps_s)]
        ELSE LET added == [i \in 1..ActionSize |-> raw[i] + PolicyDen * valids[i]]
                 total == SumSeq(added)
             IN  [i \in 1..ActionSize |->
                    IF total = 0 THEN NaN ELSE Frac(added[i], total)]
MaskedPolicy(raw, valids) ==
    LET masked == [i \in 1..ActionSize |-> raw[i] * valids[i]]
        sum_Ps_s == SumSeq(masked)
    IN  IF sum_Ps_s > 0
        THEN [i \in 1..ActionSize |-> Frac(masked[i], sum_Ps_s)]
        ELSE LET added == [i \in 1..ActionSize |-> masked[i] + PolicyDen * valids[i]]
                 total == SumSeq(added)
             IN  [i \in 1..ActionSize |->
                    IF total = 0 THEN NaN ELSE Frac(added[i], total)]

\* lines 112-116 of search: the upper confidence bound of action a at node
\* s, times Scale, as q + k * sqrt(R / EPSInv) * Scale = q + k * sqrt(R):
\* [kind |-> "num", q |-> fraction, k |-> fraction, R |-> integer]; kind is
\* "nan" when the prior is NaN
Ucb(s, a) ==
    LET P == Ps[s][a + 1]
    IN  IF P = NaN THEN [kind |-> "nan", q |-> NaN, k |-> NaN, R |-> 0]
        ELSE IF Has(Qsa, <<s, a>>)
        THEN [kind |-> "num", q |-> Qsa[<<s, a>>],
              k |-> Frac(cpuct * P[1], P[2] * (1 + Nsa[<<s, a>>])),
              R |-> EPSInv * Ns[s]]
        ELSE [kind |-> "num", q |-> <<0, 1>>,
              k |-> Frac(cpuct * P[1], P[2]),
              R |-> EPSInv * Ns[s] + 1]

\* -float('inf') (line 106)
MinusInf == [kind |-> "-inf", q |-> NaN, k |-> NaN, R |-> 0]

\* u > cur_best (line 118)
UcbGreater(u, cur_best) ==
    IF u.kind = "nan" THEN FALSE
    ELSE IF cur_best.kind = "-inf" THEN TRUE
    ELSE LET L == u.q[2] * cur_best.q[2] * u.k[2] * cur_best.k[2]
         IN  SignSum((u.q[1] * cur_best.q[2] - cur_best.q[1] * u.q[2])
                        * u.k[2] * cur_best.k[2],
                     u.k[1] * cur_best.k[2] * u.q[2] * cur_best.q[2], u.R,
                     cur_best.k[1] * u.k[2] * u.q[2] * cur_best.q[2], cur_best.R) > 0

\* lines 106-122 of search: the loop over the actions from a on
RECURSIVE PickFromAll(_, _, _, _, _)
PickFromAll(s, valids, a, cur_best, best_act) ==
    IF a >= ActionSize THEN best_act
    ELSE IF UcbGreater(Ucb(s, a), cur_best)
    THEN PickFromAll(s, valids, a + 1, Ucb(s, a), a)
    ELSE PickFromAll(s, valids, a + 1, cur_best, best_act)
RECURSIVE PickFrom(_, _, _, _, _)
PickFrom(s, valids, a, cur_best, best_act) ==
    IF a >= ActionSize THEN best_act
    ELSE IF valids[a + 1] # 0 /\ UcbGreater(Ucb(s, a), cur_best)
    THEN PickFrom(s, valids, a + 1, Ucb(s, a), a)
    ELSE PickFrom(s, valids, a + 1, cur_best, best_act)

best_action(s, valids) == PickFrom(s, valids, 0, MinusInf, 0 - 1)

\* lines 132-138 of search: the new Q[s,a] after backing up v
BackupQUnweighted(s, a, v) ==
    IF Has(Qsa, <<s, a>>)
    THEN LET q == Qsa[<<s, a>>]
         IN  Frac(q[1] + v * q[2], q[2] * 2)
    ELSE Frac(v, 1)
BackupQ(s, a, v) ==
    IF Has(Qsa, <<s, a>>)
    THEN LET q == Qsa[<<s, a>>]
             k == Nsa[<<s, a>>]
         IN  Frac(k * q[1] + v * q[2], q[2] * (k + 1))
    ELSE Frac(v, 1)

\* lines 134 and 138 of search: the new N[s,a]
BackupNReset(s, a) == 1
BackupN(s, a) == IF Has(Nsa, <<s, a>>) THEN Nsa[<<s, a>>] + 1 ELSE 1

\* ------------------------------------------------------------------------
\* State of the model
\* ------------------------------------------------------------------------
cfgVars == <<numMCTSSims, tempThreshold>>
episodeVars == <<state, current_player, step, trainExamples, result, temps>>
tableVars == <<Qsa, Nsa, Ns, Ps, Wsa, Ksa>>
learnVars == <<iter, lpc, nnet, pnet, dealer_nnet, dealer_pnet, ckpt, arena, gate, fits,
               trainExamplesHistory, iterationTrainExamples, eps>>
vars == <<numMCTSSims, tempThreshold, pc, state, current_player, step, temp,
          trainExamples, result, pi, Qsa, Nsa, Ns, Ps, sim, cur, stack, retv,
          bestAs, err, Wsa, Ksa, lastCall, temps, iter, lpc, nnet, pnet,
          dealer_nnet, dealer_pnet, ckpt, arena, gate, fits,
          trainExamplesHistory, iterationTrainExamples, eps>>

EmptyDict == <<>>
NoState == <<<<>>, <<>>, 0, 0>>
NoCall == [by |-> "", reward_in |-> 0, action |-> 0, legal |-> TRUE, reward_out |-> 0]

\* get_init_state(): the deals reset() can produce, among the cards of DealRanks
InitStates == {<<<<"K", "6">>, <<"K", "6">>, 1, 0>>}

\* the learning loop at rest (its variables when an episode is looked at alone)
LearnIdle ==
    /\ iter = 0 /\ lpc = "idle" /\ nnet = 0 /\ pnet = 0
    /\ dealer_nnet = 0 /\ dealer_pnet = 0
    /\ ckpt = EmptyDict /\ arena = <<0, 0, 0>> /\ gate = "" /\ fits = 0
    /\ trainExamplesHistory = <<>> /\ iterationTrainExamples = <<>> /\ eps = 0

\* MCTS.__init__ (lines 18-22), and the locals of the calls not yet made
FreshSearch ==
    /\ Qsa = EmptyDict /\ Nsa = EmptyDict /\ Ns = EmptyDict /\ Ps = EmptyDict
    /\ Wsa = EmptyDict /\ Ksa = EmptyDict
    /\ sim = 0 /\ cur = NoState /\ stack = <<>> /\ retv = 0
    /\ bestAs = {} /\ err = "" /\ lastCall = NoCall
    /\ pi = <<>>

\* no episode running (the episode's variables when another part is looked
\* at alone)
EpisodeIdle ==
    /\ step = 0 /\ trainExamples = <<>> /\ result = <<>> /\ temps = <<>>

\* execute_episode, lines 329-332, on the fresh MCTS of line 367
Init ==
    /\ numMCTSSims \in 0..MaxEpisodeSims
    /\ tempThreshold \in 1..MaxTempThreshold
    /\ state \in InitStates
    /\ current_player = state[3]
    /\ EpisodeIdle
    /\ temp = 0
    /\ pc = "episode"
    /\ FreshSearch
    /\ LearnIdle

\* ------------------------------------------------------------------------
\* MCTS.search, one action per stretch of code between two calls of search
\* ------------------------------------------------------------------------
\* player = 1 if self.game.alternate_turn else current_player (line 74)
SearchPlayer(st) == IF alternate_turn THEN 1 ELSE st[3]

\* a search call returns v to the frame below, or to get_action_prob's loop
Return(v, stk) ==
    /\ retv' = v
    /\ stack' = stk
    /\ IF stk = <<>> THEN pc' = "sims" /\ sim' = sim + 1
                     ELSE pc' = "backup" /\ sim' = sim

\* get_action_prob, lines 33-34: the next simulation starts
StartSearch ==
    /\ pc = "sims" /\ sim < numMCTSSims
    /\ cur' = state
    /\ stack' = <<>>
    /\ pc' = "search"
    /\ UNCHANGED <<cfgVars, episodeVars, tableVars, learnVars, temp, pi, sim,
                   retv, bestAs, err, lastCall>>

\* search, lines 71-78: terminal node
SearchTerminalNegated ==
    /\ pc = "search"
    /\ LET v == get_game_ended(cur, SearchPlayer(cur))
       IN  /\ v # 0
           /\ Return(0 - v, stack)
    /\ UNCHANGED <<cfgVars, episodeVars, tableVars, learnVars, temp, pi, cur,
                   bestAs, err, lastCall>>
SearchTerminal ==
    /\ pc = "search"
    /\ LET v == get_game_ended(cur, SearchPlayer(cur))
       IN  /\ v # 0
           /\ Return(IF alternate_turn THEN 0 - v ELSE v, stack)
    /\ UNCHANGED <<cfgVars, episodeVars, tableVars, learnVars, temp, pi, cur,
                   bestAs, err, lastCall>>

\* search, lines 80-103: leaf node, expanded with the oracle's answer (raw, v)
SearchExpandAlways(raw, v) ==
    /\ pc = "search"
    /\ get_game_ended(cur, SearchPlayer(cur)) = 0
    /\ LET s == state_to_string(cur)
           valids == get_valid_actions(cur, SearchPlayer(cur))
       IN  /\ Ps' = Put(Ps, s, MaskedPolicy(raw, valids))
           /\ Ns' = Put(Ns, s, 0)
           /\ Return(IF alternate_turn THEN 0 - v ELSE v, stack)
    /\ UNCHANGED <<cfgVars, episodeVars, learnVars, Qsa, Nsa, Wsa, Ksa, temp, pi,
                   cur, bestAs, err, lastCall>>
SearchExpand(raw, v) ==
    /\ pc = "search"
    /\ get_game_ended(cur, SearchPlayer(cur)) = 0
    /\ LET s == state_to_string(cur)
           valids == get_valid_actions(cur, SearchPlayer(cur))
       IN  /\ ~Has(Ps, s)
           /\ Ps' = Put(Ps, s, MaskedPolicy(raw, valids))
           /\ Ns' = Put(Ns, s, 0)
           /\ Return(IF alternate_turn THEN 0 - v ELSE v, stack)
    /\ UNCHANGED <<cfgVars, episodeVars, learnVars, Qsa, Nsa, Wsa, Ksa, temp, pi,
                   cur, bestAs, err, lastCall>>

\* search, lines 105-128: selection, transition and the recursive call
SearchSelect(card) ==
    /\ pc = "search"
    /\ get_game_ended(cur, SearchPlayer(cur)) = 0
    /\ LET s == state_to_string(cur)
           player == SearchPlayer(cur)
           valids == get_valid_actions(cur, player)
           a == best_action(s, valids)
           next_s == get_next_state(cur, player, a, card)
       IN  /\ Has(Ps, s)
           /\ card \in (IF a = ACTION_HIT THEN Draws(cur) ELSE {NoCard})
           /\ lastCall' = [by |-> "search", reward_in |-> cur[4], action |-> a,
                           legal |-> (a \in Actions /\ valids[a + 1] = 1),
                           reward_out |-> next_s[4]]
           /\ stack' = Append(stack, [s |-> s, a |-> a, current_player |-> cur[3],
                                      next_player |-> next_s[3]])
           /\ cur' = next_s
    /\ pc' = "search"
    /\ UNCHANGED <<cfgVars, episodeVars, tableVars, learnVars, temp, pi, sim,
                   retv, bestAs, err>>

\* search, lines 129-141: the recursive call has returned retv
BackupNegatedReturn ==
    /\ pc = "backup"
    /\ LET f == stack[Len(stack)]
           v == IF ~alternate_turn /\ f.current_player # f.next_player
                THEN 0 - retv ELSE retv
           e == <<f.s, f.a>>
       IN  /\ Qsa' = Put(Qsa, e, BackupQ(f.s, f.a, v))
           /\ Nsa' = Put(Nsa, e, BackupN(f.s, f.a))
           /\ Ns' = Put(Ns, f.s, Ns[f.s] + 1)
           /\ Wsa' = Put(Wsa, e, (IF Has(Wsa, e) THEN Wsa[e] ELSE 0) + v)
           /\ Ksa' = Put(Ksa, e, (IF Has(Ksa, e) THEN Ksa[e] ELSE 0) + 1)
           /\ Return(0 - v, SubSeq(stack, 1, Len(stack) - 1))
    /\ UNCHANGED <<cfgVars, episodeVars, learnVars, Ps, temp, pi, cur, bestAs,
                   err, lastCall>>
Backup ==
    /\ pc = "backup"
    /\ LET f == stack[Len(stack)]
           v == IF ~alternate_turn /\ f.current_player # f.next_player
                THEN 0 - retv ELSE retv
           e == <<f.s, f.a>>
       IN  /\ Qsa' = Put(Qsa, e, BackupQ(f.s, f.a, v))
           /\ Nsa' = Put(Nsa, e, BackupN(f.s, f.a))
           /\ Ns' = Put(Ns, f.s, Ns[f.s] + 1)
           /\ Wsa' = Put(Wsa, e, (IF Has(Wsa, e) THEN Wsa[e] ELSE 0) + v)
           /\ Ksa' = Put(Ksa, e, (IF Has(Ksa, e) THEN Ksa[e] ELSE 0) + 1)
           /\ Return(IF alternate_turn THEN 0 - v ELSE v,
                     SubSeq(stack, 1, Len(stack) - 1))
    /\ UNCHANGED <<cfgVars, episodeVars, learnVars, Ps, temp, pi, cur, bestAs,
                   err, lastCall>>

\* ------------------------------------------------------------------------
\* MCTS.get_action_prob, lines 36-49, after the simulations
\* ------------------------------------------------------------------------
RootCounts(st) ==
    LET s == state_to_string(st)
    IN  [i \in 1..ActionSize |-> IF Has(Nsa, <<s, i - 1>>) THEN Nsa[<<s, i - 1>>] ELSE 0]

\* np.argwhere(counts == np.max(counts)) (line 40)
BestActionsFirstOnly(counts) ==
    {CHOOSE a \in Actions : /\ counts[a + 1] = MaxOf(counts)
                            /\ \A b \in Actions : counts[b + 1] = MaxOf(counts) => a <= b}
BestActions(counts) == {a \in Actions : counts[a + 1] = MaxOf(counts)}

ActionProb ==
    /\ pc = "sims" /\ sim = numMCTSSims
    /\ LET counts == RootCounts(state)
           counts_sum == SumSeq(counts)      \* temp = 1: x ** (1. / temp) = x
       IN  IF temp = 0
           THEN /\ bestAs' = BestActions(counts)
                /\ \E bestA \in bestAs' :
                      pi' = [i \in 1..ActionSize |->
                                IF i = bestA + 1 THEN <<1, 1>> ELSE <<0, 1>>]
                /\ pc' = "act"
                /\ err' = err
           ELSE IF counts_sum = 0
           THEN /\ err' = "ZeroDivisionError"      \* x / counts_sum (line 48)
                /\ pc' = "raised"
                /\ UNCHANGED <<pi, bestAs>>
           ELSE /\ pi' = [i \in 1..ActionSize |-> Frac(counts[i], counts_sum)]
                /\ pc' = "act"
                /\ UNCHANGED <<err, bestAs>>
    /\ UNCHANGED <<cfgVars, episodeVars, tableVars, learnVars, temp, sim, cur,
                   stack, retv, lastCall>>

\* ------------------------------------------------------------------------
\* BlackJackAgent.execute_episode
\* ------------------------------------------------------------------------
\* temp = int(step < self.args.tempThreshold) (line 336)
TemperatureOffByOne(stp, threshold) == IF stp <= threshold THEN 1 ELSE 0
Temperature(stp, threshold) == IF stp < threshold THEN 1 ELSE 0

\* lines 335-338: the next decision starts
EpisodeStep ==
    /\ pc = "episode"
    /\ step' = step + 1
    /\ temp' = Temperature(step + 1, tempThreshold)
    /\ temps' = Append(temps, temp')
    /\ sim' = 0
    /\ pc' = "sims"
    /\ UNCHANGED <<cfgVars, tableVars, learnVars, state, current_player,
                   trainExamples, result, pi, cur, stack, retv, bestAs, err,
                   lastCall>>

\* line 348: the list returned
Returned(examples) ==
    [i \in 1..Len(examples) |->
        <<examples[i][1], examples[i][3], examples[i][2], examples[i][2]>>]

\* r != 0 (line 347): the episode is over
EpisodeOverOnWin(r) == r > 0
EpisodeOver(r) == r # 0

\* lines 339-348: the example is recorded, the action sampled and applied
EpisodeAct(action, card) ==
    /\ pc = "act"
    /\ action \in Actions /\ pi[action + 1][1] > 0      \* np.random.choice(len(pi), p=pi)
    /\ card \in (IF action = ACTION_HIT THEN Draws(state) ELSE {NoCard})
    /\ LET next == get_next_state(state, current_player, action, card)
           examples == Append(trainExamples,
                              <<to_neural_state(state)[1], current_player, pi>>)
       IN  /\ trainExamples' = examples
           /\ state' = next
           /\ current_player' = next[3]
           /\ lastCall' = [by |-> "execute_episode", reward_in |-> state[4],
                           action |-> action,
                           legal |-> get_valid_actions(state, current_player)[action + 1] = 1,
                           reward_out |-> next[4]]
           /\ IF EpisodeOver(next[4])
              THEN result' = Returned(examples) /\ pc' = "done"
              ELSE result' = result /\ pc' = "episode"
    /\ UNCHANGED <<cfgVars, tableVars, learnVars, step, temps, temp, pi, sim, cur,
                   stack, retv, bestAs, err>>

Next ==
    \/ EpisodeStep
    \/ StartSearch
    \/ SearchTerminal
    \/ \E o \in OracleSet : SearchExpand(o[1], o[2])
    \/ \E card \in DealRanks \cup {NoCard} : SearchSelect(card)
    \/ Backup
    \/ ActionProb
    \/ \E action \in Actions, card \in DealRanks \cup {NoCard} : EpisodeAct(action, card)

Spec == Init /\ [][Next]_vars

\* ------------------------------------------------------------------------
\* One get_action_prob(state, temp) call on a fresh MCTS
\* ------------------------------------------------------------------------
\* get_init_state(): further deals, one of them with a soft hand
CallStates == InitStates \cup {<<<<"A", "6">>, <<"K", "5">>, 1, 0>>,
                               <<<<"K", "K">>, <<"6", "5">>, 1, 0>>}

InitCall ==
    /\ numMCTSSims \in 0..MaxSims
    /\ tempThreshold = 1
    /\ state \in CallStates
    /\ current_player = state[3]
    /\ EpisodeIdle
    /\ temp \in {0, 1}
    /\ pc = "sims"
    /\ FreshSearch
    /\ LearnIdle

NextCall ==
    \/ StartSearch
    \/ SearchTerminal
    \/ \E o \in OracleSet : SearchExpand(o[1], o[2])
    \/ \E card \in DealRanks \cup {NoCard} : SearchSelect(card)
    \/ Backup
    \/ ActionProb

SpecCall == InitCall /\ [][NextCall]_vars

\* ------------------------------------------------------------------------
\* One get_action_prob(state, temp) call on a state its caller made up: the
\* hand of the side to move is already over 21 although the reward is 0, a
\* state the game's own transitions never produce
\* ------------------------------------------------------------------------
MalformedStates == {<<<<"K", "6", "K">>, <<"K", "6">>, 1, 0>>,
                    <<<<"K", "6", "K">>, <<"K", "6">>, 0 - 1, 0>>}

InitAny ==
    /\ numMCTSSims \in 0..MaxSims
    /\ tempThreshold = 1
    /\ state \in MalformedStates
    /\ current_player = state[3]
    /\ EpisodeIdle
    /\ temp \in {0, 1}
    /\ pc = "sims"
    /\ FreshSearch
    /\ LearnIdle

SpecAny == InitAny /\ [][NextCall]_vars

\* ------------------------------------------------------------------------
\* One get_action_prob(state, temp) call of execute_episode on the dealer's
\* turn, after the player stood on the deal: the dealer holds a soft 17
\* (A, 6) or a hard 16 (K, 6)
\* ------------------------------------------------------------------------
StandStates == {<<<<"A", "6">>, <<"K", "6">>, 0 - 1, 0>>,
                <<<<"K", "6">>, <<"K", "5">>, 0 - 1, 0>>}

InitStand ==
    /\ numMCTSSims \in 0..MaxSims
    /\ tempThreshold = 1
    /\ state \in StandStates
    /\ current_player = state[3]
    /\ EpisodeIdle
    /\ temp \in {0, 1}
    /\ pc = "sims"
    /\ FreshSearch
    /\ LearnIdle

SpecStand == InitStand /\ [][NextCall]_vars

\* ------------------------------------------------------------------------
\* BlackJackAgent.learn
\* ------------------------------------------------------------------------
numIters == MaxIters           \* args.numIters
UpdateThresholdNum == 6        \* args.updateThreshold = 0.6 = 6 / 10
UpdateThresholdDen == 10
numEps == 2                           \* args.numEps
maxlenOfQueue == 3                    \* args.maxlenOfQueue
numItersForTrainExamplesHistory == 1  \* args.numItersForTrainExamplesHistory
skipFirstSelfPlay == FALSE            \* self.skipFirstSelfPlay (line 311)

\* the examples the j-th execute_episode call of iteration i returns when the
\* episode has n decisions, named by where they come from
NewExamples(i, j, n) == [k \in 1..n |-> <<i, j, k>>]

\* deque(maxlen=maxlen).append(x): a full deque drops its leftmost element
DequeAppendDropNewest(d, x, maxlen) ==
    IF maxlen = 0 THEN <<>>
    ELSE IF Len(d) = maxlen THEN Append(SubSeq(d, 1, Len(d) - 1), x)
    ELSE Append(d, x)
DequeAppend(d, x, maxlen) ==
    IF maxlen = 0 THEN <<>>
    ELSE IF Len(d) = maxlen THEN Append(Tail(d), x)
    ELSE Append(d, x)

\* deque += items (line 368): the items are appended one by one
RECURSIVE DequeExtend(_, _, _)
DequeExtend(d, items, maxlen) ==
    IF items = <<>> THEN d
    ELSE DequeExtend(DequeAppend(d, Head(items), maxlen), Tail(items), maxlen)

\* lines 373-376: the history once the oldest buffer is dropped when it is
\* longer than numItersForTrainExamplesHistory
PopOldest(history) ==
    IF Len(history) > numItersForTrainExamplesHistory THEN Tail(history) ELSE history

\* line 363: the iteration runs self-play
SelfPlayRuns(i) == ~skipFirstSelfPlay \/ i > 1

\* Arena.eval_games(games_eval): the tallies (nwins, pwins, draws) an arena
\* of GamesEval games can return
ArenaResults ==
    {<<nw, pw, GamesEval - nw - pw>> : nw \in 0..GamesEval, pw \in 0..GamesEval}
        \cap (Nat \X Nat \X Nat)

\* float(nwins) / (pwins + nwins): Python raises ZeroDivisionError on a zero
\* divisor
Quotient(a, b) ==
    IF b = 0 THEN [raised |-> TRUE, v |-> NaN] ELSE [raised |-> FALSE, v |-> Frac(a, b)]

\* line 414: the gate, "reject", "accept" or the exception raised
GateOutcomeNoZeroTest(nwins, pwins) ==
    LET r == Quotient(nwins, pwins + nwins)
    IN  IF r.raised THEN "ZeroDivisionError"
        ELSE IF r.v[1] * UpdateThresholdDen < UpdateThresholdNum * r.v[2]
        THEN "reject"
        ELSE "accept"
GateOutcome(nwins, pwins) ==
    IF pwins + nwins = 0 THEN "reject"
    ELSE LET r == Quotient(nwins, pwins + nwins)
         IN  IF r.raised THEN "ZeroDivisionError"
             ELSE IF r.v[1] * UpdateThresholdDen < UpdateThresholdNum * r.v[2]
             THEN "reject"
             ELSE "accept"

searchVars == <<numMCTSSims, tempThreshold, pc, state, current_player, step, temp,
                trainExamples, result, pi, Qsa, Nsa, Ns, Ps, sim, cur, stack,
                retv, bestAs, Wsa, Ksa, lastCall, temps>>

\* BlackJackAgent.__init__ (lines 303-311) and the entry of learn's loop
InitLearn ==
    /\ iter = 1 /\ lpc = "selfplay"
    /\ nnet = 0 /\ dealer_nnet = 0      \* the parameters the networks start with
    /\ pnet = 0 - 1 /\ dealer_pnet = 0 - 1
    /\ ckpt = EmptyDict /\ arena = <<0, 0, 0>> /\ gate = "" /\ fits = 0
    /\ trainExamplesHistory = <<>> /\ iterationTrainExamples = <<>> /\ eps = 0
    /\ numMCTSSims = 0 /\ tempThreshold = 1
    /\ state = NoState /\ current_player = 1
    /\ EpisodeIdle /\ temp = 0 /\ pc = "idle"
    /\ FreshSearch

\* lines 366-368: one self-play episode, which returns n examples
LearnEpisode(n) ==
    /\ lpc = "selfplay" /\ SelfPlayRuns(iter) /\ eps < numEps
    /\ iterationTrainExamples' =
          DequeExtend(iterationTrainExamples, NewExamples(iter, eps + 1, n),
                      maxlenOfQueue)
    /\ eps' = eps + 1
    /\ UNCHANGED <<searchVars, err, iter, lpc, nnet, pnet, dealer_nnet, dealer_pnet,
                   ckpt, arena, gate, fits, trainExamplesHistory>>

\* lines 370-385: the iteration's examples join the history, which is cut
LearnSelfPlay ==
    /\ lpc = "selfplay"
    /\ SelfPlayRuns(iter) => eps = numEps
    /\ trainExamplesHistory' =
          PopOldest(IF SelfPlayRuns(iter)
                    THEN Append(trainExamplesHistory, iterationTrainExamples)
                    ELSE trainExamplesHistory)
    /\ lpc' = "fit"
    /\ UNCHANGED <<searchVars, err, iter, nnet, pnet, dealer_nnet, dealer_pnet,
                   ckpt, arena, gate, fits, iterationTrainExamples, eps>>

\* lines 388-397: snapshot to temp, load into the previous networks, fit
LearnFitBeforeSnapshot ==
    /\ lpc = "fit"
    /\ fits' = fits + 1
    /\ nnet' = fits + 1
    /\ dealer_nnet' = fits + 1
    /\ ckpt' = Put(Put(ckpt, "temp.tar", nnet'), "tempd.tar", dealer_nnet')
    /\ pnet' = nnet'
    /\ dealer_pnet' = dealer_nnet'
    /\ lpc' = "arena"
    /\ UNCHANGED <<searchVars, err, iter, arena, gate, trainExamplesHistory,
                   iterationTrainExamples, eps>>
LearnFit ==
    /\ lpc = "fit"
    /\ ckpt' = Put(Put(ckpt, "temp.tar", nnet), "tempd.tar", dealer_nnet)
    /\ pnet' = nnet
    /\ dealer_pnet' = dealer_nnet
    /\ fits' = fits + 1
    /\ nnet' = fits + 1            \* fit leaves new parameters in the network
    /\ dealer_nnet' = fits + 1
    /\ lpc' = "arena"
    /\ UNCHANGED <<searchVars, err, iter, arena, gate, trainExamplesHistory,
                   iterationTrainExamples, eps>>

\* lines 399-410: the arena, and the first iteration saved as the base
LearnArenaNoBase(res) ==
    /\ lpc = "arena"
    /\ arena' = res
    /\ gate' = ""
    /\ lpc' = "gate"
    /\ UNCHANGED <<searchVars, err, iter, nnet, pnet, dealer_nnet, dealer_pnet, fits,
                   ckpt, trainExamplesHistory, iterationTrainExamples, eps>>
LearnArena(res) ==
    /\ lpc = "arena"
    /\ arena' = res
    /\ ckpt' = IF iter = 1
               THEN Put(Put(ckpt, "best.tar", nnet), "bestd.tar", dealer_nnet)
               ELSE ckpt
    /\ gate' = ""
    /\ lpc' = "gate"
    /\ UNCHANGED <<searchVars, err, iter, nnet, pnet, dealer_nnet, dealer_pnet, fits,
                   trainExamplesHistory, iterationTrainExamples, eps>>

\* lines 413-422: the gate
LearnGate ==
    /\ lpc = "gate"
    /\ LET out == GateOutcome(arena[1], arena[2])
       IN  /\ gate' = out
           /\ IF out = "reject"
              THEN /\ nnet' = ckpt["temp.tar"]
                   /\ dealer_nnet' = ckpt["tempd.tar"]
                   /\ UNCHANGED <<ckpt, err>>
                   /\ lpc' = "next"
              ELSE IF out = "accept"
              THEN /\ ckpt' = Put(Put(ckpt, "best.tar", nnet), "bestd.tar", dealer_nnet)
                   /\ UNCHANGED <<nnet, dealer_nnet, err>>
                   /\ lpc' = "next"
              ELSE /\ err' = out
                   /\ UNCHANGED <<nnet, dealer_nnet, ckpt>>
                   /\ lpc' = "raised"
    /\ UNCHANGED <<searchVars, iter, pnet, dealer_pnet, arena, fits,
                   trainExamplesHistory, iterationTrainExamples, eps>>

\* lines 359-364: the loop goes on to the next iteration, with an empty
\* deque, or ends
LearnNext ==
    /\ lpc = "next"
    /\ IF iter < numIters
       THEN /\ iter' = iter + 1 /\ lpc' = "selfplay"
            /\ iterationTrainExamples' = <<>> /\ eps' = 0
       ELSE /\ iter' = iter /\ lpc' = "done"
            /\ UNCHANGED <<iterationTrainExamples, eps>>
    /\ UNCHANGED <<searchVars, err, nnet, pnet, dealer_nnet, dealer_pnet, ckpt,
                   arena, gate, fits, trainExamplesHistory>>

NextLearn ==
    \/ \E n \in 1..MaxEpisodeLen : LearnEpisode(n)
    \/ LearnSelfPlay
    \/ LearnFit
    \/ \E res \in ArenaResults : LearnArena(res)
    \/ LearnGate
    \/ LearnNext

SpecLearn == InitLearn /\ [][NextLearn]_vars

\* ------------------------------------------------------------------------
\* Two games played side by side on one Blackjack object: state is the state
\* of the one, cur the state of the other (the states an MCTS table meets
\* when it is kept from one game to the next, as in the arena); each step
\* applies get_next_state with a legal action to one that has not ended
\* ------------------------------------------------------------------------
KeyDeals == {<<<<"K", "6">>, <<"K", "6">>, 1, 0>>,
             <<<<"K", "6">>, <<"K", "5">>, 1, 0>>,
             <<<<"K", "6">>, <<"A", "6">>, 1, 0>>,
             <<<<"K", "6">>, <<"K", "7">>, 1, 0>>,
             <<<<"A", "5">>, <<"K", "6">>, 1, 0>>,
             <<<<"K", "6">>, <<"A", "5">>, 1, 0>>}

InitKeys ==
    /\ numMCTSSims = 0 /\ tempThreshold = 1
    /\ state \in KeyDeals /\ cur \in KeyDeals
    /\ current_player = state[3]
    /\ EpisodeIdle /\ temp = 0 /\ pc = "play" /\ pi = <<>>
    /\ Qsa = EmptyDict /\ Nsa = EmptyDict /\ Ns = EmptyDict /\ Ps = EmptyDict
    /\ Wsa = EmptyDict /\ Ksa = EmptyDict
    /\ sim = 0 /\ stack = <<>> /\ retv = 0 /\ bestAs = {} /\ err = ""
    /\ lastCall = NoCall
    /\ LearnIdle

\* get_next_state(state, state[2], action) in the first game
PlayState(action, card) ==
    /\ pc = "play" /\ state[4] = 0
    /\ get_valid_actions(state, state[3])[action + 1] = 1
    /\ card \in (IF action = ACTION_HIT THEN Draws(state) ELSE {NoCard})
    /\ state' = get_next_state(state, state[3], action, card)
    /\ current_player' = state'[3]
    /\ UNCHANGED <<cfgVars, tableVars, learnVars, pc, step, temp, trainExamples,
                   result, pi, sim, cur, stack, retv, bestAs, err, lastCall, temps>>

\* get_next_state(state, state[2], action) in the second game
PlayCur(action, card) ==
    /\ pc = "play" /\ cur[4] = 0
    /\ get_valid_actions(cur, cur[3])[action + 1] = 1
    /\ card \in (IF action = ACTION_HIT THEN Draws(cur) ELSE {NoCard})
    /\ cur' = get_next_state(cur, cur[3], action, card)
    /\ UNCHANGED <<cfgVars, tableVars, learnVars, pc, state, current_player, step,
                   temp, trainExamples, result, pi, sim, stack, retv, bestAs, err,
                   lastCall, temps>>

NextKeys ==
    \/ \E action \in Actions, card \in DealRanks \cup {NoCard} : PlayState(action, card)
    \/ \E action \in Actions, card \in DealRanks \cup {NoCard} : PlayCur(action, card)

SpecKeys == InitKeys /\ [][NextKeys]_vars

\* the (successor key, outcome) pairs get_next_state can give for action a
\* in state st, over the cards _deal_next_card can draw
Results(st, a) ==
    {<<state_to_string(get_next_state(st, st[3], a, card)),
       get_next_state(st, st[3], a, card)[4]>> :
        card \in (IF a = ACTION_HIT THEN deal_next_card(st) ELSE {NoCard})}

\* ------------------------------------------------------------------------
\* One game played to its end by a caller that, like the loop of
\* execute_episode and the recursion of search, calls get_next_state with a
\* legal action as long as get_game_ended gives 0.  The cards drawn are the
\* low ranks and a ten, which give the longest games.
\* ------------------------------------------------------------------------
GameRanks == {"A", "2", "K"}

GameDeals == KeyDeals \cup {<<<<"A", "2">>, <<"K", "6">>, 1, 0>>,
                            <<<<"2", "2">>, <<"A", "A">>, 1, 0>>}

InitGame ==
    /\ numMCTSSims = 0 /\ tempThreshold = 1
    /\ state \in GameDeals /\ cur = NoState
    /\ current_player = state[3]
    /\ EpisodeIdle /\ temp = 0 /\ pc = "game" /\ pi = <<>>
    /\ Qsa = EmptyDict /\ Nsa = EmptyDict /\ Ns = EmptyDict /\ Ps = EmptyDict
    /\ Wsa = EmptyDict /\ Ksa = EmptyDict
    /\ sim = 0 /\ stack = <<>> /\ retv = 0 /\ bestAs = {} /\ err = ""
    /\ lastCall = NoCall
    /\ LearnIdle

\* get_next_state(state, state[2], action) with a legal action
PlayGame(action, card) ==
    /\ pc = "game" /\ get_game_ended(state, state[3]) = 0
    /\ get_valid_actions(state, state[3])[action + 1] = 1
    /\ card \in (IF action = ACTION_HIT
                 THEN deal_next_card(state) \cap GameRanks ELSE {NoCard})
    /\ state' = get_next_state(state, state[3], action, card)
    /\ current_player' = state'[3]
    /\ UNCHANGED <<cfgVars, tableVars, learnVars, pc, step, temp, trainExamples,
                   result, pi, sim, cur, stack, retv, bestAs, err, lastCall, temps>>

NextGame == \E action \in Actions, card \in GameRanks \cup {NoCard} :
                PlayGame(action, card)

\* the values the return statements of get_next_state can give for st: the
\* mover's hand with one more card, the two hands swapped with the dealer
\* to move, or the state with an outcome
MoveShapes(st) ==
    {<<Append(st[1], c), st[2], st[3], r>> : c \in GameRanks, r \in {0, WIN, LOSS}}
    \cup {<<st[2], st[1], -1, 0>>}
    \cup {<<st[1], st[2], st[3], r>> : r \in {LOSS, TIE, WIN}}

\* the caller makes a move: get_game_ended gave 0 and get_next_state returned
GameMove ==
    /\ pc = "game" /\ get_game_ended(state, state[3]) = 0
    /\ state' \in MoveShapes(state)
    /\ current_player' = state'[3]
    /\ UNCHANGED <<cfgVars, tableVars, learnVars, pc, step, temp, trainExamples,
                   result, pi, sim, cur, stack, retv, bestAs, err, lastCall, temps>>

\* get_valid_actions leaves the caller an action it can take in st
HasLegalMove(st) ==
    \E action \in Actions :
        /\ get_valid_actions(st, st[3])[action + 1] = 1
        /\ action = ACTION_HIT => deal_next_card(st) \cap GameRanks # {}

\* The caller never waits: the loop of execute_episode and the recursion of
\* search stop only when get_game_ended is not 0, so a game that has not
\* ended gets its next move.
SpecGame == InitGame /\ [][NextGame]_vars /\ WF_vars(GameMove)

\* an upper bound on the number of legal transitions left from st: each
\* hit adds at least 1 to the least total of the mover's hand, which cannot
\* pass 21 without ending the game, and a stand passes the turn or ends it
HitsLeft(hand) ==
    22 - MinOf(get_value([i \in 1..(n13 + 1) |->
                            IF i <= n13 THEN CountOf(hand, suite[i]) ELSE 0]))

StepsLeft(st) ==
    IF get_game_ended(st, st[3]) # 0 THEN 0
    ELSE IF st[3] = -1 THEN HitsLeft(st[1]) + 1
    ELSE HitsLeft(st[1]) + 1 + HitsLeft(st[2]) + 1

\* ========================================================================
\* Properties
\* ========================================================================
Outcomes == {0, WIN, LOSS, TIE}

\* the simulations of the running get_action_prob call are all done
SimsDone == sim = numMCTSSims /\ pc \in {"sims", "act", "raised"}

\* ---- C1 (SpecLearn).  After the gate of an iteration: the new pair is
\* accepted and saved as best exactly when nwins + pwins > 0 and
\* nwins / (nwins + pwins) >= updateThreshold; otherwise both networks hold
\* the pre-fit temp snapshot again; no division by zero is raised; with
\* updateThreshold = 0.6, (5,5) is rejected and (7,3) accepted.
C1_GateDecision ==
    /\ lpc # "raised"
    /\ lpc = "next" =>
         LET nw == arena[1]
             pw == arena[2]
             passes == nw + pw > 0
                       /\ nw * UpdateThresholdDen >= UpdateThresholdNum * (nw + pw)
         IN  /\ gate = (IF passes THEN "accept" ELSE "reject")
             /\ gate = "accept" =>
                  /\ nnet = fits /\ dealer_nnet = fits
                  /\ ckpt["best.tar"] = nnet /\ ckpt["bestd.tar"] = dealer_nnet
             /\ gate = "reject" =>
                  /\ nnet = ckpt["temp.tar"] /\ dealer_nnet = ckpt["tempd.tar"]
                  /\ nnet = pnet /\ dealer_nnet = dealer_pnet
                  /\ nnet # fits /\ dealer_nnet # fits
             /\ (nw = 5 /\ pw = 5) => gate = "reject"
             /\ (nw = 7 /\ pw = 3) => gate = "accept"

\* an arena of draws only has been rejected and rolled back
C1_Witness ==
    /\ lpc = "next" /\ arena[1] + arena[2] = 0 /\ gate = "reject"
    /\ nnet = ckpt["temp.tar"] /\ dealer_nnet = ckpt["tempd.tar"]

C3_NoZeroDivision == err # "ZeroDivisionError"

\* ---- C4 (Spec).  get_action_prob with temp = 0 returns a one-hot vector
\* whose 1 is on an action of maximal root visit count, chosen among all the
\* actions tied for the maximum.
C4_OneHotOnMax ==
    (pc = "act" /\ temp = 0) =>
        LET counts == RootCounts(state)
            tied == {a \in Actions : \A b \in Actions : counts[b + 1] <= counts[a + 1]}
        IN  /\ bestAs = tied
            /\ \E a \in tied :
                  \A b \in Actions : pi[b + 1] = (IF b = a THEN <<1, 1>> ELSE <<0, 1>>)

\* two actions are tied and the one of higher index got the 1
C4_Witness ==
    /\ pc = "act" /\ temp = 0 /\ numMCTSSims >= 2
    /\ RootCounts(state)[1] = RootCounts(state)[2]
    /\ RootCounts(state)[1] >= 1
    /\ pi = <<<<0, 1>>, <<1, 1>>>>

\* ---- C5 (Spec).  Every example execute_episode returns carries the
\* terminal outcome seen from its recorded player: +1 if that player won,
\* -1 if it lost.
C5_LabelIsOutcome ==
    pc = "done" =>
        \A i \in 1..Len(result) :
            LET recorded == result[i][3]
                outcome == IF recorded = state[3] THEN state[4] ELSE 0 - state[4]
            IN  /\ outcome = WIN => result[i][4] = 1
                /\ outcome = LOSS => result[i][4] = 0 - 1

\* ---- C6 (Spec).  get_next_state returns a successor only for an action
\* that is legal for the player in the state (an illegal one fails).
C6_IllegalActionFails == lastCall.legal

\* ---- C7 (SpecAny).  At an expanded non-terminal node whose legal-action
\* vector is all zero, search applies no transition (passes no action -1 to
\* get_next_state) and updates no statistic.
C7_NoTransitionWithoutAction ==
    /\ ~(lastCall.by = "search" /\ lastCall.action \notin Actions)
    /\ \A e \in DOMAIN Nsa : e[2] \in Actions

\* ---- C8 (SpecCall).  For every edge, N[s,a] is the number k of values
\* backed up through it and N[s,a] * Q[s,a] is their sum: Q[s,a] is the
\* arithmetic mean of v_1..v_k.
C8_RunningMean ==
    /\ DOMAIN Qsa = DOMAIN Nsa /\ DOMAIN Wsa = DOMAIN Nsa /\ DOMAIN Ksa = DOMAIN Nsa
    /\ \A e \in DOMAIN Qsa :
          /\ Nsa[e] = Ksa[e]
          /\ Nsa[e] * Qsa[e][1] = Wsa[e] * Qsa[e][2]

\* an edge traversed three times whose mean is none of the values backed up
C8_Witness ==
    \E e \in DOMAIN Qsa : Nsa[e] = 3 /\ Qsa[e][2] = 3

\* ---- C9 (Spec), as stated.  The first tempThreshold decisions of an
\* episode are made with temperature 1, every later one with temperature 0.
C9_FirstThreshold ==
    \A i \in 1..Len(temps) : temps[i] = (IF i <= tempThreshold THEN 1 ELSE 0)

\* ---- C9 (Spec), amended.  The first tempThreshold - 1 decisions of an
\* episode are made with temperature 1 (decision i, counted from 1, has
\* temperature 1 exactly when i < tempThreshold), every later one with
\* temperature 0; once the temperature is 0 it stays 0.
C9_BelowThreshold ==
    /\ \A i \in 1..Len(temps) : temps[i] = (IF i < tempThreshold THEN 1 ELSE 0)
    /\ \A i, j \in 1..Len(temps) : (i < j /\ temps[i] = 0) => temps[j] = 0
    /\ pc \in {"sims", "search", "backup", "act"} => temp = temps[Len(temps)]

\* the temperature has dropped from 1 to 0 within an episode
C9_Witness ==
    /\ Len(temps) >= 2 /\ temps[1] = 1 /\ temps[2] = 0 /\ pc = "act"

\* ---- C10 (Spec).  get_next_state is only ever applied, by execute_episode
\* and by search, to a state whose outcome is 0; from every non-terminal
\* state at which either of them is about to move, every legal action with
\* every card that can be dealt gives a state whose outcome is 0, +1, -1 or
\* 1e-4.
C10_ValidTransitions ==
    /\ lastCall.reward_in = 0
    /\ lastCall.legal => lastCall.reward_out \in Outcomes
    /\ LET st == IF pc = "search" THEN cur ELSE state
       IN  (pc \in {"search", "act"} /\ st[4] = 0) =>
              \A a \in Actions :
                 get_valid_actions(st, st[3])[a + 1] = 1 =>
                    \A card \in deal_next_card(st) :
                       LET next == get_next_state(st, st[3], a, card)
                       IN  Len(next) = 4 /\ next[4] \in Outcomes

\* both callers have applied transitions, and the episode ended in a tie
C10_Witness ==
    /\ pc = "done" /\ state[4] = TIE /\ lastCall.by = "execute_episode"
    /\ lastCall.legal /\ Nsa # EmptyDict

\* ---- C11 (Spec).  At every point of any sequence of searches on one MCTS:
\* P[s] and N[s] are defined for the same nodes; Q[s,a] and N[s,a] are
\* defined for the same edges, each with N[s,a] >= 1 the number of backups
\* through it, and only at nodes that have a P[s]; a P[s] appears only when
\* search expands the node s it is called on, which had none, and is never
\* changed afterwards; N[s,a] changes only when the traversal of (s,a)
\* completes, by one.
C11_Tables ==
    /\ [](/\ DOMAIN Ps = DOMAIN Ns
          /\ DOMAIN Qsa = DOMAIN Nsa
          /\ \A e \in DOMAIN Nsa : Nsa[e] >= 1 /\ Nsa[e] = Ksa[e] /\ Has(Ps, e[1])
          /\ \A i \in 1..Len(stack) : Has(Ps, stack[i].s))
    /\ [][/\ \A s \in DOMAIN Ps : Has(Ps', s) /\ Ps'[s] = Ps[s]
          /\ DOMAIN Ps' # DOMAIN Ps =>
                /\ pc = "search" /\ cur[4] = 0
                /\ DOMAIN Ps' = DOMAIN Ps \cup {state_to_string(cur)}
                /\ Ns'[state_to_string(cur)] = 0
          /\ \A e \in DOMAIN Nsa : Has(Nsa', e)
          /\ Nsa' # Nsa =>
                /\ pc = "backup"
                /\ LET e == <<stack[Len(stack)].s, stack[Len(stack)].a>>
                   IN  /\ DOMAIN Nsa' = DOMAIN Nsa \cup {e}
                       /\ Nsa'[e] = (IF Has(Nsa, e) THEN Nsa[e] ELSE 0) + 1
                       /\ \A d \in DOMAIN Nsa : d # e => Nsa'[d] = Nsa[d]
          /\ pc = "backup" => Nsa' # Nsa]_vars

\* three nodes are expanded, one of them never descended from, and an edge
\* has been traversed twice
C11_Witness ==
    /\ stack = <<>> /\ pc = "act"
    /\ Cardinality(DOMAIN Ps) >= 3
    /\ \E s \in DOMAIN Ps : \A a \in Actions : ~Has(Nsa, <<s, a>>)
    /\ \E e \in DOMAIN Nsa : Nsa[e] >= 2

\* ---- C12 (SpecKeys).  Two non-terminal states reached by play have the
\* same state_to_string key only if they have the same current player and,
\* for every action legal in either, the same set of possible
\* (successor key, outcome) results.
C12_KeyInjective ==
    (state[4] = 0 /\ cur[4] = 0 /\ state_to_string(state) = state_to_string(cur)) =>
        /\ state[3] = cur[3]
        /\ \A a \in Actions :
              (get_valid_actions(state, state[3])[a + 1] = 1
                 \/ get_valid_actions(cur, cur[3])[a + 1] = 1) =>
                 Results(state, a) = Results(cur, a)

\* ---- C13 (SpecLearn).  In iteration 1 the fitted player and dealer
\* networks are saved as best.tar and bestd.tar before the gate, and stay so
\* whether the gate accepts or rejects; from then on both files exist; in an
\* iteration i > 1 the best files change only in a gate step that accepts.
C13_BestSnapshot ==
    /\ []((iter = 1 /\ lpc \in {"gate", "next", "done"}) =>
             /\ Has(ckpt, "best.tar") /\ Has(ckpt, "bestd.tar")
             /\ ckpt["best.tar"] = 1 /\ ckpt["bestd.tar"] = 1)
    /\ [](iter > 1 => Has(ckpt, "best.tar") /\ Has(ckpt, "bestd.tar"))
    /\ [][(/\ iter > 1
           /\ \/ ckpt'["best.tar"] # ckpt["best.tar"]
              \/ ckpt'["bestd.tar"] # ckpt["bestd.tar"]) =>
             /\ lpc = "gate" /\ gate' = "accept"
             /\ ckpt'["best.tar"] = nnet /\ ckpt'["bestd.tar"] = dealer_nnet]_vars

\* iterations 1 and 2 were both rejected: the best files hold the networks
\* fitted in iteration 1 while the live networks are the initial ones
C13_Witness ==
    /\ iter = 2 /\ lpc = "next" /\ gate = "reject"
    /\ ckpt["best.tar"] = 1 /\ ckpt["bestd.tar"] = 1
    /\ nnet = 0 /\ dealer_nnet = 0

\* ---- C14 (SpecLearn).  The iteration's deque never holds more than
\* maxlenOfQueue examples, and an episode's examples enter it at the right
\* end while the oldest ones leave it at the left end; when the fit phase
\* starts, the history holds at most numItersForTrainExamplesHistory
\* buffers, each of at most maxlenOfQueue examples, and they are the buffers
\* of the latest iterations in order, the last being the current one's.
C14_BoundedHistory ==
    /\ [](/\ Len(iterationTrainExamples) <= maxlenOfQueue
          /\ lpc = "fit" =>
               LET h == trainExamplesHistory
               IN  /\ Len(h) <= numItersForTrainExamplesHistory
                   /\ \A i \in 1..Len(h) :
                         /\ Len(h[i]) <= maxlenOfQueue
                         /\ \A k \in 1..Len(h[i]) : h[i][k][1] = iter - Len(h) + i
                   /\ (SelfPlayRuns(iter) /\ numItersForTrainExamplesHistory > 0) =>
                         /\ Len(h) >= 1
                         /\ h[Len(h)] = iterationTrainExamples)
    /\ [][(lpc = "selfplay" /\ iterationTrainExamples' # iterationTrainExamples) =>
             \E n \in 1..MaxEpisodeLen :
                LET all == iterationTrainExamples \o NewExamples(iter, eps + 1, n)
                    keep == IF Len(all) < maxlenOfQueue THEN Len(all) ELSE maxlenOfQueue
                IN  iterationTrainExamples' = SubSeq(all, Len(all) - keep + 1, Len(all))]_vars

\* iteration 2 is about to fit: the buffer of iteration 1 has left the
\* history, and the first example of iteration 2 has left its full buffer
C14_Witness ==
    /\ lpc = "fit" /\ iter = 2
    /\ Len(trainExamplesHistory) = numItersForTrainExamplesHistory
    /\ Len(trainExamplesHistory[1]) = maxlenOfQueue
    /\ trainExamplesHistory[1][1] = <<2, 1, 2>>

C16_MaskedPrior ==
    [][Ps' # Ps =>
          LET s == state_to_string(cur)
              valids == get_valid_actions(cur, SearchPlayer(cur))
              legal == {a \in Actions : valids[a + 1] = 1}
              o == CHOOSE o \in OracleSet : o[2] = retv'
              masked_sum == SumSeq([i \in 1..ActionSize |-> o[1][i] * valids[i]])
          IN  legal # {} =>
                 /\ \A a \in Actions \ legal : Ps'[s][a + 1] = <<0, 1>>
                 /\ SumFracs(Ps'[s]) = <<1, 1>>
                 /\ masked_sum <= 0 =>
                       \A a \in legal : Ps'[s][a + 1] = Frac(1, Cardinality(legal))
                 /\ masked_sum > 0 =>
                       \A a \in legal : Ps'[s][a + 1] = Frac(o[1][a + 1], masked_sum)
                 /\ err' = "" /\ pc' \in {"sims", "backup"}]_vars

\* the dealer's node below the root has just been expanded with an oracle
\* policy that puts everything on the illegal stand: the prior is all on hit
C16_Witness ==
    /\ pc = "backup" /\ Len(stack) = 1 /\ cur[3] = DEALER /\ cur[4] = 0
    /\ retv = 0 - 5000
    /\ get_valid_actions(cur, DEALER) = <<1, 0>>
    /\ Has(Ps, state_to_string(cur))
    /\ Ps[state_to_string(cur)] = <<<<1, 1>>, <<0, 1>>>>
    /\ Ns[state_to_string(cur)] = 0

\* ---- C17 (SpecCall).  When search is at an expanded non-terminal node
\* that has a legal action, the action a it passes to get_next_state is
\* legal at the node, no legal action has a greater upper confidence score
\* (Q[s,a] + cpuct*P[s][a]*sqrt(N[s])/(1+N[s,a]) on a visited edge,
\* cpuct*P[s][a]*sqrt(N[s]+EPS) on an unvisited one), and every legal action
\* of lower index has a strictly smaller score.
C17_SelectsMaxUcb ==
    [][LET s == state_to_string(cur)
           valids == get_valid_actions(cur, SearchPlayer(cur))
           legal == {b \in Actions : valids[b + 1] = 1}
       IN  (pc = "search" /\ cur[4] = 0 /\ Has(Ps, s) /\ legal # {}) =>
              LET a == lastCall'.action
              IN  /\ a \in legal
                  /\ lastCall'.by = "search"
                  /\ stack' = Append(stack, stack'[Len(stack')])
                  /\ stack'[Len(stack')].s = s /\ stack'[Len(stack')].a = a
                  /\ \E card \in DealRanks \cup {NoCard} :
                        cur' = get_next_state(cur, SearchPlayer(cur), a, card)
                  /\ \A b \in legal :
                        /\ ~UcbGreater(Ucb(s, b), Ucb(s, a))
                        /\ b < a => UcbGreater(Ucb(s, a), Ucb(s, b))]_vars

\* search has just descended through hit from a visited player node where
\* hit and stand had the same score
C17_Witness ==
    /\ pc = "search" /\ stack # <<>>
    /\ LET f == stack[Len(stack)]
       IN  /\ f.current_player = PLAYER /\ f.a = ACTION_HIT
           /\ Ns[f.s] >= 1
           /\ ~UcbGreater(Ucb(f.s, 0), Ucb(f.s, 1))
           /\ ~UcbGreater(Ucb(f.s, 1), Ucb(f.s, 0))

C19_Outcomes ==
    LET MinTotal(hand) == SumSeq([i \in 1..Len(hand) |-> card_values[index_map(hand[i]) + 1]])
        BestTotal(hand) == IF (\E i \in 1..Len(hand) : hand[i] = "A") /\ MinTotal(hand) + 10 <= 21
                           THEN MinTotal(hand) + 10 ELSE MinTotal(hand)
    IN  state[4] = 0 =>
           /\ \A card \in deal_next_card(state) :
                 get_next_state(state, state[3], ACTION_HIT, card) =
                    <<Append(state[1], card), state[2], state[3],
                      IF MinTotal(Append(state[1], card)) > 21 THEN LOSS ELSE 0>>
           /\ get_next_state(state, state[3], ACTION_STAND, NoCard) =
                 IF state[3] = PLAYER THEN <<state[2], state[1], DEALER, 0>>
                 ELSE <<state[1], state[2], state[3],
                        IF BestTotal(state[1]) > BestTotal(state[2]) THEN WIN
                        ELSE IF BestTotal(state[1]) < BestTotal(state[2]) THEN LOSS
                        ELSE TIE>>

\* play has ended with a dealer who drew to a total equal to the player's
C19_Witness ==
    /\ state[3] = DEALER /\ state[4] = TIE /\ Len(state[1]) >= 3
    /\ Len(state[2]) >= 3

\* ---- C20 (SpecLearn).  In every iteration the phases follow one another
\* in the order self-play, snapshot and fit, arena, gate; the fit starts
\* only when all numEps episodes are done, and neither an episode nor the
\* arena changes a network; the fit step saves the live pair to temp.tar and
\* tempd.tar and loads it into the previous pair before it changes the live
\* pair, so that in the arena the previous pair holds the parameters the
\* live pair had just before the fit.
C20_PhaseOrder ==
    /\ [](lpc \in {"arena", "gate"} =>
             /\ pnet = ckpt["temp.tar"] /\ dealer_pnet = ckpt["tempd.tar"]
             /\ nnet = fits /\ dealer_nnet = fits
             /\ eps = numEps)
    /\ [][/\ lpc' # lpc =>
                <<lpc, lpc'>> \in {<<"selfplay", "fit">>, <<"fit", "arena">>,
                                   <<"arena", "gate">>, <<"gate", "next">>,
                                   <<"next", "selfplay">>, <<"next", "done">>}
          /\ iter' # iter => (lpc = "next" /\ iter' = iter + 1)
          /\ lpc = "fit" =>
                /\ eps = numEps
                /\ pnet' = nnet /\ dealer_pnet' = dealer_nnet
                /\ ckpt'["temp.tar"] = nnet /\ ckpt'["tempd.tar"] = dealer_nnet
                /\ fits' = fits + 1 /\ nnet' = fits' /\ dealer_nnet' = fits'
                /\ lpc' = "arena"
          /\ lpc \in {"selfplay", "arena", "next"} =>
                UNCHANGED <<nnet, pnet, dealer_nnet, dealer_pnet, fits>>
          /\ lpc = "gate" => UNCHANGED <<pnet, dealer_pnet, fits>>]_vars

\* the arena of iteration 2 is about to play after iteration 1 was rejected:
\* the previous pair holds the initial parameters the live pair had before
\* the second fit
C20_Witness ==
    /\ lpc = "arena" /\ iter = 2 /\ eps = numEps
    /\ pnet = 0 /\ dealer_pnet = 0 /\ nnet = 2 /\ dealer_nnet = 2
    /\ ckpt["temp.tar"] = 0

\* ---- C21 (SpecGame).  Every game played with legal actions ends: from
\* every deal the state reaches a non-zero outcome, and it does so within a
\* bounded number of get_next_state calls, because a state that has not
\* ended always has a legal action and each call lowers StepsLeft, which
\* starts at 42 or less and is 0 only at the end of the game; a call on a state that has not ended either keeps the current
\* player or changes it from the player (1) to the dealer (-1), so the
\* turn passes at most once and never back.
C21_GameEnds ==
    /\ <>(get_game_ended(state, state[3]) # 0)
    /\ [](/\ StepsLeft(state) \in 0..42
          /\ get_game_ended(state, state[3]) = 0 => HasLegalMove(state)
          /\ (StepsLeft(state) = 0) = (get_game_ended(state, state[3]) # 0)
          /\ state[3] \in {1, -1})
    /\ [][/\ StepsLeft(state') < StepsLeft(state)
          /\ state[3] = -1 => state'[3] = -1
          /\ state'[3] # state[3] =>
                (state[3] = 1 /\ state'[3] = -1 /\ state'[4] = 0)]_vars

\* a game has ended after the player hit, stood, and the dealer hit twice
C21_Witness ==
    /\ pc = "game" /\ get_game_ended(state, state[3]) # 0
    /\ state[3] = -1 /\ Len(state[2]) > 2 /\ Len(state[1]) > 3

\* the visit counts of the edges of node s, absent edges counting as 0
EdgeCounts(s) == [i \in 1..ActionSize |->
                    IF Has(Nsa, <<s, i - 1>>) THEN Nsa[<<s, i - 1>>] ELSE 0]

\* ---- C22 (SpecStand).  After the completed search calls of a
\* get_action_prob call on a fresh table: every expanded node s has
\* N[s] equal to the sum of its N[s,a], and each completed descent has
\* raised N and one edge count by exactly 1 at each node on its path but
\* the last; the root is on the path of all sim descents and the last node
\* only of the first, so N[root] and the sum of the root's N[root,a] are
\* sim - 1.
C22_CountsPerDescent ==
    (pc \in {"sims", "act", "raised"}) =>
        /\ \A s \in DOMAIN Ns : Ns[s] = SumSeq(EdgeCounts(s))
        /\ sim >= 1 =>
              /\ Has(Ns, state_to_string(state))
              /\ Ns[state_to_string(state)] = sim - 1

\* ---- C23 (Spec).  The vector get_action_prob returns for a non-terminal
\* root after numMCTSSims >= 1 simulations, on the fresh table of the first
\* decision or the table kept from earlier decisions, at temperature 0 or 1,
\* has probability 0 on every action that get_valid_actions rules out at
\* the root.
C23_NoMassOnIllegal ==
    (pc = "act" /\ numMCTSSims >= 1 /\ get_game_ended(state, state[3]) = 0) =>
        \A a \in Actions :
            get_valid_actions(state, state[3])[a + 1] = 0 => pi[a + 1] = <<0, 1>>

\* ---- C24 (SpecLearn).  At the end of every iteration of learn, after the
\* gate, the live player and dealer networks have the parameters stored in
\* best.tar and bestd.tar.
C24_LiveIsBest ==
    (lpc \in {"next", "done"}) =>
        /\ Has(ckpt, "best.tar") /\ Has(ckpt, "bestd.tar")
        /\ nnet = ckpt["best.tar"] /\ dealer_nnet = ckpt["bestd.tar"]

====
